---- MODULE Spec2Model ----
(***************************************************************************)
(* Model of the course-syllabus retrieval chat (backend/src/rag.py,        *)
(* backend/src/cli_chat.py, backend/src/run_chat.py and                    *)
(* backend/src/server.py).                                                 *)
(*                                                                         *)
(* Text is a sequence of symbols.  A symbol is one character ("a", " ")    *)
(* or one fixed literal of the source kept whole (a field label, a fixed   *)
(* prompt line).                                                           *)
(* A retrieval result is a sequence of corpus positions (1..Len(docs)),    *)
(* standing for the document objects the Python lists share.               *)
(***************************************************************************)
EXTENDS Integers, Sequences, FiniteSets, TLC

VARIABLES
    pc,          \* control position of the modelled run
    source,      \* the corpus source handed to the loader
    sklearn,     \* rag.SKLEARN_AVAILABLE
    args,        \* ChatSession.args (rag, rag_method, rag_k, history_size)
    db,          \* ChatSession.course_db_wrapper / the loader's return value
    index,       \* ChatSession.rag_index / prepare_tfidf_index's return value
    history,     \* ChatSession.history
    query,       \* the query of the last retrieval call
    k,           \* the k of the last retrieval call
    sims,        \* similarities computed by the last ranking
    out,         \* the last retrieval result: [docs, path, matched]
    prompt,      \* the last prompt built
    reply,       \* the value the last ChatSession.chat returned
    calls,       \* how often each function has been called
    passed       \* the history list the caller of ChatSession.chat holds

vars == <<pc, source, sklearn, args, db, index, history, query, k, sims, out, prompt, reply, calls, passed>>

-----------------------------------------------------------------------------
(* Bounds of the model *)

MaxDocs == 3
MaxQueryLen == 3
MaxK == 2
MaxTurns == 2

-----------------------------------------------------------------------------
(* Symbols: SP is the ASCII space, ZSP the ideographic space U+3000 *)

SP == " "
ZSP == "U+3000"
NL == "\n"
Whitespace == {SP, ZSP, NL}

-----------------------------------------------------------------------------
(* Python str / list operations used by the source *)

\* s.replace(c, "")
Remove(s, c) ==
    LET Keep(x) == x # c IN SelectSeq(s, Keep)

\* sub in s
Contains(sub, s) ==
    \E i \in 0..(Len(s) - Len(sub)) : SubSeq(s, i + 1, i + Len(sub)) = sub

RECURSIVE LStrip(_)
LStrip(s) ==
    IF s # <<>> /\ Head(s) \in Whitespace THEN LStrip(Tail(s)) ELSE s

RECURSIVE RStrip(_)
RStrip(s) ==
    IF s # <<>> /\ s[Len(s)] \in Whitespace THEN RStrip(SubSeq(s, 1, Len(s) - 1)) ELSE s

\* s.strip()
Strip(s) == LStrip(RStrip(s))

\* s.split(): the maximal runs of non-whitespace symbols, in order
RECURSIVE SplitFrom(_, _, _)
SplitFrom(s, cur, acc) ==
    IF s = <<>> THEN (IF cur = <<>> THEN acc ELSE Append(acc, cur))
    ELSE IF Head(s) \in Whitespace
         THEN SplitFrom(Tail(s), <<>>, IF cur = <<>> THEN acc ELSE Append(acc, cur))
         ELSE SplitFrom(Tail(s), Append(cur, Head(s)), acc)

Split(s) == SplitFrom(s, <<>>, <<>>)

\* "\n".join(parts)
RECURSIVE JoinNL(_)
JoinNL(parts) ==
    IF parts = <<>> THEN <<>>
    ELSE IF Len(parts) = 1 THEN parts[1]
    ELSE parts[1] \o <<NL>> \o JoinNL(Tail(parts))

\* lst[:n] for n >= 0
Take(lst, n) == SubSeq(lst, 1, IF n < Len(lst) THEN n ELSE Len(lst))

\* lst[::-1]
Reverse(lst) == [i \in 1..Len(lst) |-> lst[Len(lst) + 1 - i]]

-----------------------------------------------------------------------------
(* The corpus source.  A source is missing, unparsable, parsed to something *)
(* that is no list, or a list of records.  A record is a mapping with the   *)
(* keys "subject" (the subject-name field) and "professor" (the instructor  *)
(* field), each absent, null or a text; or it is no mapping at all (a       *)
(* number, or a text that does not contain the subject-name key).           *)

Absent == [present |-> FALSE, null |-> FALSE, val |-> <<>>]
Null == [present |-> TRUE, null |-> TRUE, val |-> <<>>]
Str(s) == [present |-> TRUE, null |-> FALSE, val |-> s]

Dict(subject, professor) == [type |-> "dict", subject |-> subject, professor |-> professor]
NumberRecord == [type |-> "number", subject |-> Absent, professor |-> Absent]
StringRecord == [type |-> "string", subject |-> Absent, professor |-> Absent]

\* The labels the loaders put in front of a field
LblSubject == "[subject]"
LblProfessor == "[professor]"

\* f"{value}" of a field value: None formats as "None"
Format(field) == IF field.null THEN <<"None">> ELSE field.val

\* item.get(key, "") of a mapping
Get(field) == IF field.present THEN field ELSE Str(<<>>)

NoneDb == [valid |-> FALSE, docs |-> <<>>, professors |-> {}]

\* One document as the loaders build it
\* (title is the field value as read: a text, or null)
Doc(title, professor, text) == [title |-> title, professor |-> professor, text |-> text]

\* prof_name.replace(" ", "").replace(U+3000, "")
NormalizeSpaces(s) == Remove(Remove(s, SP), ZSP)

\* The two forms of a name that are added to known_professors
KnownForms(prof_name) ==
    IF prof_name = <<>> THEN {} ELSE {prof_name, NormalizeSpaces(prof_name)}

\* Mutant of Wrap: the test len(processed_data) == 0 forgotten
Wrap_NoEmptyCheck(processed_data, known_professors) ==
    [valid |-> TRUE, docs |-> processed_data, professors |-> known_professors]

\* The wrapper returned after the loop of either loader
Wrap(processed_data, known_professors) ==
    IF Len(processed_data) = 0 THEN NoneDb
    ELSE [valid |-> TRUE, docs |-> processed_data, professors |-> known_professors]

\* The text of a document built by load_course_db
JsonText(item) ==
    JoinNL(<<<<LblSubject, SP>> \o Format(item.subject)>>
           \o (IF item.professor.present
               THEN <<<<LblProfessor, SP>> \o Format(item.professor)>>
               ELSE <<>>))

\* Does the loop body of load_course_db raise on this record?
\* A number has no "in"; None has no strip().
JsonRaises(item) ==
    \/ item.type = "number"
    \/ item.type = "dict" /\ item.subject.present /\ Get(item.professor).null

\* The for loop of load_course_db from record i on; an exception leaves the
\* loop and the function returns None
RECURSIVE JsonLoop(_, _, _, _)
JsonLoop(raw_data, i, processed_data, known_professors) ==
    IF i > Len(raw_data) THEN Wrap(processed_data, known_professors)
    ELSE LET item == raw_data[i] IN
         IF JsonRaises(item) THEN NoneDb
         ELSE IF item.type = "string" \/ ~item.subject.present
              THEN JsonLoop(raw_data, i + 1, processed_data, known_professors)
              ELSE LET prof_name == Strip(Get(item.professor).val)
                       title == item.subject
                   IN JsonLoop(raw_data, i + 1,
                               Append(processed_data, Doc(title, prof_name, JsonText(item))),
                               known_professors \cup KnownForms(prof_name))

load_course_db(src) ==
    IF src.kind # "list" THEN NoneDb
    ELSE JsonLoop(src.records, 1, <<>>, {})

\* A CSV cell: v.strip() if v else ""
Cell(field) == IF field.present /\ ~field.null THEN Strip(field.val) ELSE <<>>

\* The text of a document built by load_course_db_from_csv
CsvText(title, prof_name) ==
    JoinNL(<<<<LblSubject, SP>> \o title>>
           \o (IF prof_name # <<>> THEN <<<<LblProfessor, SP>> \o prof_name>> ELSE <<>>))

\* The for loop of load_course_db_from_csv from row i on
RECURSIVE CsvLoop(_, _, _, _)
CsvLoop(rows, i, processed_data, known_professors) ==
    IF i > Len(rows) THEN Wrap(processed_data, known_professors)
    ELSE LET title == Cell(rows[i].subject)
             prof_name == Strip(Cell(rows[i].professor))
         IN IF title = <<>>
            THEN CsvLoop(rows, i + 1, processed_data, known_professors)
            ELSE CsvLoop(rows, i + 1,
                         Append(processed_data, Doc(Str(title), prof_name, CsvText(title, prof_name))),
                         known_professors \cup KnownForms(prof_name))

load_course_db_from_csv(src) ==
    IF src.kind # "list" THEN NoneDb
    ELSE CsvLoop(src.records, 1, <<>>, {})

-----------------------------------------------------------------------------
(* The TF-IDF index.  TfidfVectorizer(analyzer='char', ngram_range=(2, 3)) *)
(* lower-cases a text, replaces every run of two or more whitespace        *)
(* characters by one space and takes its character 2- and 3-grams.         *)

Lower(c) == IF c = "A" THEN "a" ELSE IF c = "B" THEN "b" ELSE c

LowerCase(s) == [i \in 1..Len(s) |-> Lower(s[i])]

RECURSIVE CollapseWhitespace(_)
CollapseWhitespace(s) ==
    IF Len(s) < 2 THEN s
    ELSE IF s[1] \in Whitespace /\ s[2] \in Whitespace
         THEN LET rest == CollapseWhitespace(Tail(s))
              IN <<SP>> \o Tail(rest)
         ELSE <<s[1]>> \o CollapseWhitespace(Tail(s))

ngram_min == 2
ngram_max == 3

NGrams(s) ==
    LET t == CollapseWhitespace(LowerCase(s))
    IN UNION {{SubSeq(t, i, i + n - 1) : i \in 1..(Len(t) - n + 1)} : n \in ngram_min..ngram_max}

NoneIndex == [valid |-> FALSE, docs |-> <<>>, professors |-> {}, matrix |-> <<>>]

\* vectorizer.fit_transform(corpus): one row per document, in corpus order;
\* a row is kept as the set of n-grams that have a non-zero weight in it
FitTransform(corpus) == [i \in 1..Len(corpus) |-> NGrams(corpus[i])]

prepare_tfidf_index(db_wrapper) ==
    IF ~sklearn THEN NoneIndex
    ELSE [valid |-> TRUE,
          docs |-> db_wrapper.docs,
          professors |-> db_wrapper.professors,
          matrix |-> FitTransform([i \in 1..Len(db_wrapper.docs) |-> db_wrapper.docs[i].text])]

\* cosine_similarity(vectorizer.transform([query]), matrix).flatten(): one
\* score per row.  TF-IDF weights are positive, so a score is positive exactly
\* when the query shares an n-gram with the row, and rows of equal texts
\* score equally.  Beyond that the values are left open; since retrieval
\* only compares scores, every ordering of the rows is represented by the
\* ranks 1..m it induces.
CosineSimilarities(q, index_data) ==
    LET n == Len(index_data.matrix)
        qv == NGrams(q)
        hit == [i \in 1..n |-> qv \cap index_data.matrix[i] # {}]
    IN {sv \in [1..n -> 0..n] :
           /\ \A i \in 1..n : (sv[i] > 0) <=> hit[i]
           /\ \A i \in 1..n : sv[i] > 1 => \E j \in 1..n : sv[j] = sv[i] - 1
           /\ \A i, j \in 1..n :
                 index_data.docs[i].text = index_data.docs[j].text => sv[i] = sv[j]}

\* similarities.argsort(): a permutation of the positions that puts the
\* scores in ascending order; numpy's default sort is not stable, so the
\* order among equal scores is open
ArgSorts(similarities) ==
    LET n == Len(similarities)
    IN {p \in [1..n -> 1..n] :
           /\ \A i, j \in 1..n : i # j => p[i] # p[j]
           /\ \A i, j \in 1..n : i < j => similarities[p[i]] <= similarities[p[j]]}

-----------------------------------------------------------------------------
(* Retrieval *)

\* The positions 1..n in order: the order a for loop visits the documents in
Positions(n) == [i \in 1..n |-> i]

NoResult == [docs |-> <<>>, path |-> "none", matched |-> {}]

\* Mutant of MatchedProfessors: the test len(prof) >= 2 forgotten
MatchedProfessors_AnyLength(q, professors) ==
    {prof \in professors : Contains(prof, NormalizeSpaces(q))}

\* The names of index_data's metadata that the query mentions
MatchedProfessors(q, professors) ==
    LET normalized_query == NormalizeSpaces(q)
    IN {prof \in professors : Contains(prof, normalized_query) /\ Len(prof) >= 2}

\* Mutant of FilteredResults: only the first matching document is kept
FilteredResults_FirstOnly(docs, matched_professors) ==
    LET Hit(i) == NormalizeSpaces(docs[i].professor) \in matched_professors
    IN Take(SelectSeq(Positions(Len(docs)), Hit), 1)

\* Mutant of FilteredResults: the instructor of a document compared as it
\* is written, with its spaces
FilteredResults_NoNormalize(docs, matched_professors) ==
    LET Hit(i) == docs[i].professor \in matched_professors
    IN SelectSeq(Positions(Len(docs)), Hit)

\* The documents of a matched professor, in corpus order
FilteredResults(docs, matched_professors) ==
    LET Hit(i) == NormalizeSpaces(docs[i].professor) \in matched_professors
    IN SelectSeq(Positions(Len(docs)), Hit)

\* Mutants of TopIndices: the cut [:k] forgotten; the reversal [::-1] forgotten
TopIndices_NoCut(order, kk) == Reverse(order)
TopIndices_NoReverse(order, kk) == Take(order, kk)

\* similarities.argsort()[::-1][:k]
TopIndices(order, kk) == Take(Reverse(order), kk)

\* Mutant of RankedResults: the test similarities[idx] > 0 forgotten
RankedResults_NoFloor(top_indices, similarities) == top_indices

\* The loop that keeps the top indices with a positive similarity
RankedResults(top_indices, similarities) ==
    LET Positive(idx) == similarities[idx] > 0
    IN SelectSeq(top_indices, Positive)

\* retrieve_tfidf(query, index_data, k); similarities and order are the
\* values cosine_similarity and argsort return for this call
retrieve_tfidf(q, index_data, kk, similarities, order) ==
    IF ~index_data.valid \/ ~sklearn THEN NoResult
    ELSE LET matched_professors == MatchedProfessors(q, index_data.professors)
             filtered_results == FilteredResults(index_data.docs, matched_professors)
         IN IF matched_professors # {} /\ filtered_results # <<>>
            THEN [docs |-> filtered_results, path |-> "filter", matched |-> matched_professors]
            ELSE [docs |-> RankedResults(TopIndices(order, kk), similarities),
                  path |-> "rank", matched |-> matched_professors]

\* query.replace(U+3000, " ").split()
QueryTerms(q) ==
    Split([i \in 1..Len(q) |-> IF q[i] = ZSP THEN SP ELSE q[i]])

\* The number of terms (with repetitions) that occur in the content
RECURSIVE TermHits(_, _)
TermHits(terms, content) ==
    IF terms = <<>> THEN 0
    ELSE (IF Contains(Head(terms), content) THEN 1 ELSE 0) + TermHits(Tail(terms), content)

whole_query_score == 10

\* The score the simple retrieve gives one document
SimpleScore(q, content) ==
    (IF Contains(q, content) THEN whole_query_score ELSE 0) + TermHits(QueryTerms(q), content)

\* scored_docs.sort(key=score, reverse=True): stable, descending; insertion
\* of position i into an already sorted list, behind every entry that
\* scores at least as high
RECURSIVE InsertByScore(_, _, _)
InsertByScore(sorted, i, score) ==
    IF sorted = <<>> THEN <<i>>
    ELSE IF score[Head(sorted)] >= score[i]
         THEN <<Head(sorted)>> \o InsertByScore(Tail(sorted), i, score)
         ELSE <<i>> \o sorted

RECURSIVE StableSortDesc(_, _)
StableSortDesc(positions, score) ==
    IF positions = <<>> THEN <<>>
    ELSE InsertByScore(StableSortDesc(SubSeq(positions, 1, Len(positions) - 1), score),
                       positions[Len(positions)], score)

\* The scores the simple retrieve computes, one per document
SimpleScores(q, docs) == [i \in 1..Len(docs) |-> SimpleScore(q, docs[i].text)]

\* retrieve(query, db_wrapper, k)
retrieve(q, db_wrapper, kk) ==
    LET docs == db_wrapper.docs
        score == SimpleScores(q, docs)
        Scored(i) == score[i] > 0
        scored_docs == SelectSeq(Positions(Len(docs)), Scored)
    IN [docs |-> Take(StableSortDesc(scored_docs, score), kk),
        path |-> "simple", matched |-> {}]

-----------------------------------------------------------------------------
(* Prompt assembly.  The fixed lines of the prompt are single symbols. *)

CtxIntro == "[syllabus-intro]"
CtxListHint == "[summarize-all-hint]"
CtxHeader == "--- Syllabus ---"
CtxFooter == "---------------------------"
NotFoundLine == "[no-related-information]"
ConversationLine == "Conversation:"
UserLabel == "User:"
AssistantLabel == "Assistant:"

\* The label of the i-th retrieved document
InfoLabel(i) == <<"[info", ToString(i), "]">>

Turn(role, text) == [role |-> role, text |-> text]

\* Mutant of HistoryPiece: every turn labelled as a user turn
HistoryPiece_AlwaysUser(turn) == <<UserLabel, SP>> \o turn.text \o <<NL>>

\* One history line: "User: {text}\n" or "Assistant: {text}\n"
HistoryPiece(turn) ==
    <<IF turn.role = "user" THEN UserLabel ELSE AssistantLabel, SP>> \o turn.text \o <<NL>>

\* f"User: {user_input}\nAssistant:"
FinalPiece(user_input) == <<UserLabel, SP>> \o user_input \o <<NL, AssistantLabel>>

\* Mutant of build_prompt_with_rag: enumerate(retrieved_docs) without the
\* start value 1
build_prompt_with_rag_FromZero(system, hist, user_input, retrieved_docs) ==
    JoinNL((IF system # <<>> THEN <<system \o <<NL>>>> ELSE <<>>)
           \o (IF retrieved_docs # <<>>
               THEN <<<<CtxIntro>>, <<CtxListHint, NL>>, <<CtxHeader>>>>
                    \o [i \in 1..Len(retrieved_docs) |->
                           InfoLabel(i - 1) \o <<NL>> \o retrieved_docs[i].text \o <<NL>>]
                    \o <<<<CtxFooter, NL>>>>
               ELSE <<<<NotFoundLine, NL>>>>)
           \o <<<<ConversationLine, NL>>>>
           \o [i \in 1..Len(hist) |-> HistoryPiece(hist[i])]
           \o <<FinalPiece(user_input)>>)

\* build_prompt_with_rag(system, history, user_input, retrieved_docs)
build_prompt_with_rag(system, hist, user_input, retrieved_docs) ==
    JoinNL((IF system # <<>> THEN <<system \o <<NL>>>> ELSE <<>>)
           \o (IF retrieved_docs # <<>>
               THEN <<<<CtxIntro>>, <<CtxListHint, NL>>, <<CtxHeader>>>>
                    \o [i \in 1..Len(retrieved_docs) |->
                           InfoLabel(i) \o <<NL>> \o retrieved_docs[i].text \o <<NL>>]
                    \o <<<<CtxFooter, NL>>>>
               ELSE <<<<NotFoundLine, NL>>>>)
           \o <<<<ConversationLine, NL>>>>
           \o [i \in 1..Len(hist) |-> HistoryPiece(hist[i])]
           \o <<FinalPiece(user_input)>>)

\* "".join(pieces)
RECURSIVE Concat(_)
Concat(pieces) == IF pieces = <<>> THEN <<>> ELSE Head(pieces) \o Concat(Tail(pieces))

\* build_prompt(system, history, user_input)
build_prompt(system, hist, user_input) ==
    Concat((IF system # <<>> THEN <<system \o <<NL, NL>>>> ELSE <<>>)
           \o <<<<ConversationLine, NL>>>>
           \o [i \in 1..Len(hist) |-> HistoryPiece(hist[i])]
           \o <<FinalPiece(user_input)>>)

-----------------------------------------------------------------------------
(* ChatSession *)

\* active_history[-history_size:] for history_size >= 0
Trimmed(active_history, history_size) ==
    IF history_size = 0 \/ history_size >= Len(active_history) THEN active_history
    ELSE SubSeq(active_history, Len(active_history) - history_size + 1, Len(active_history))

\* ", ".join(parts)
RECURSIVE JoinComma(_)
JoinComma(parts) ==
    IF parts = <<>> THEN <<>>
    ELSE IF Len(parts) = 1 THEN parts[1]
    ELSE parts[1] \o <<",", SP>> \o JoinComma(Tail(parts))

\* Mutant of CombinedQuery: the test role == "user" forgotten
CombinedQuery_AllRoles(trimmed_history, user_input) ==
    LET history_text == JoinComma([i \in 1..Len(trimmed_history) |-> trimmed_history[i].text])
    IN IF history_text # <<>> THEN history_text \o <<NL>> \o user_input
       ELSE user_input

\* The query ChatSession.chat retrieves with
CombinedQuery(trimmed_history, user_input) ==
    LET IsUser(t) == t.role = "user"
        users == SelectSeq(trimmed_history, IsUser)
        history_user_text == JoinComma([i \in 1..Len(users) |-> users[i].text])
    IN IF history_user_text # <<>> THEN history_user_text \o <<NL>> \o user_input
       ELSE user_input

\* The loader ChatSession.__init__ picks by the extension of args.rag_db
LoadBySuffix(src) ==
    IF src.fmt = "csv" THEN load_course_db_from_csv(src) ELSE load_course_db(src)

\* f"Error generating response: {e}"
GenerationError == <<"Error generating response">>

-----------------------------------------------------------------------------
(* Inputs *)

\* All sequences over S of length at most n
SeqsUpTo(S, n) == UNION {[1..m -> S] : m \in 0..n}

\* The characters queries are written in
QueryChars == {"a", "b", SP, NL}

Queries == SeqsUpTo(QueryChars, MaxQueryLen)

\* Well-formed records: an instructor "ab" written with an ideographic
\* space, and an instructor with a one-character name
RecordA == Dict(Str(<<"A">>), Str(<<"a", ZSP, "b">>))
RecordC == Dict(Str(<<"b", "a">>), Str(<<"b">>))

RetrievalRecords == {RecordA, RecordC}

ListSource(fmt, records) == [kind |-> "list", fmt |-> fmt, records |-> records]

\* The history argument of ChatSession.chat: None, or a list of turns
NoHistory == [given |-> FALSE, turns |-> <<>>]
Given(turns) == [given |-> TRUE, turns |-> turns]

NoArgs == [rag |-> FALSE, rag_method |-> "simple", rag_k |-> 0, history_size |-> 0, system |-> <<>>]
NoCalls == [load |-> 0, prepare |-> 0, retrieve_tfidf |-> 0, retrieve |-> 0, chat |-> 0]

-----------------------------------------------------------------------------
(* SpecRetrieve: one call of retrieve_tfidf or retrieve against an index   *)
(* built by load_course_db and prepare_tfidf_index.                        *)

InitRetrieve ==
    /\ pc = "call"
    /\ sklearn = TRUE
    /\ source \in {ListSource("json", rs) : rs \in SeqsUpTo(RetrievalRecords, MaxDocs) \ {<<>>}}
    /\ db = load_course_db(source)
    /\ index = prepare_tfidf_index(db)
    /\ query \in Queries
    /\ k \in 0..MaxK
    /\ args = NoArgs
    /\ history = <<>>
    /\ sims = <<>>
    /\ out = NoResult
    /\ prompt = <<>>
    /\ reply = <<>>
    /\ calls = NoCalls
    /\ passed = NoHistory

CallRetrieveTfidf ==
    /\ pc = "call"
    /\ \E similarities \in CosineSimilarities(query, index) :
       \E order \in ArgSorts(similarities) :
          LET result == retrieve_tfidf(query, index, k, similarities, order)
          IN /\ out' = result
             /\ sims' = IF result.path = "rank" THEN similarities ELSE <<>>
    /\ pc' = "tfidf"
    /\ calls' = [calls EXCEPT !.retrieve_tfidf = @ + 1]
    /\ UNCHANGED <<source, sklearn, args, db, index, history, query, k, prompt, reply, passed>>

CallRetrieve ==
    /\ pc = "call"
    /\ out' = retrieve(query, db, k)
    /\ sims' = SimpleScores(query, db.docs)
    /\ pc' = "simple"
    /\ calls' = [calls EXCEPT !.retrieve = @ + 1]
    /\ UNCHANGED <<source, sklearn, args, db, index, history, query, k, prompt, reply, passed>>

NextRetrieve == CallRetrieveTfidf \/ CallRetrieve

SpecRetrieve == InitRetrieve /\ [][NextRetrieve]_vars

-----------------------------------------------------------------------------
(* Spec: one ChatSession, from its construction through its chat turns.    *)

\* Records that the loaders skip or fail on
NoSubject == Dict(Absent, Str(<<"b">>))
NullProfessor == Dict(Str(<<"b">>), Null)

Unavailable(kind, fmt) == [kind |-> kind, fmt |-> fmt, records |-> <<>>]

SessionSources ==
    {Unavailable("missing", "json"), Unavailable("missing", "csv"),
     Unavailable("unparsable", "json"), Unavailable("notlist", "json"),
     ListSource("json", <<>>), ListSource("csv", <<>>),
     ListSource("json", <<NoSubject>>), ListSource("csv", <<NoSubject, NoSubject>>),
     ListSource("json", <<RecordA, NullProfessor>>),
     ListSource("json", <<RecordA, RecordC>>), ListSource("csv", <<RecordC, RecordA>>),
     ListSource("json", <<RecordC, RecordA, RecordC>>)}

HistorySizes == {0, 1, 2}

SessionArgs ==
    [rag : BOOLEAN, rag_method : {"tfidf", "simple"}, rag_k : {1, MaxK},
     history_size : HistorySizes, system : {<<"[system]">>}]

ChatInputs == {<<"a", "b">>, <<"b", "a">>}

ExternalHistories ==
    {NoHistory, Given(<<Turn("user", <<"a">>), Turn("assistant", <<"b">>)>>)}

ModelReply == <<"[reply]">>

Init ==
    /\ pc = "new"
    /\ sklearn \in BOOLEAN
    /\ source \in SessionSources
    /\ args \in SessionArgs
    /\ db = NoneDb
    /\ index = NoneIndex
    /\ history = <<>>
    /\ query = <<>>
    /\ k = 0
    /\ sims = <<>>
    /\ out = NoResult
    /\ prompt = <<>>
    /\ reply = <<>>
    /\ calls = NoCalls
    /\ passed = NoHistory

\* Mutant of Construct: the fallback to "simple" after a failed index
\* preparation forgotten
Construct_NoFallback ==
    /\ pc = "new"
    /\ pc' = "ready"
    /\ IF args.rag
       THEN LET course_db_wrapper == LoadBySuffix(source)
            IN /\ db' = course_db_wrapper
               /\ args' = IF course_db_wrapper.valid THEN args ELSE [args EXCEPT !.rag = FALSE]
               /\ index' = IF course_db_wrapper.valid /\ args.rag_method = "tfidf"
                            THEN prepare_tfidf_index(course_db_wrapper) ELSE NoneIndex
               /\ calls' = IF course_db_wrapper.valid /\ args.rag_method = "tfidf"
                            THEN [calls EXCEPT !.load = @ + 1, !.prepare = @ + 1]
                            ELSE [calls EXCEPT !.load = @ + 1]
       ELSE UNCHANGED <<db, index, args, calls, passed>>
    /\ UNCHANGED <<source, sklearn, history, query, k, sims, out, prompt, reply, passed>>

\* ChatSession.__init__(args)
Construct ==
    /\ pc = "new"
    /\ pc' = "ready"
    /\ IF args.rag
       THEN LET course_db_wrapper == LoadBySuffix(source)
                rag_index == prepare_tfidf_index(course_db_wrapper)
            IN /\ db' = course_db_wrapper
               /\ IF ~course_db_wrapper.valid
                  THEN /\ args' = [args EXCEPT !.rag = FALSE]
                       /\ index' = NoneIndex
                       /\ calls' = [calls EXCEPT !.load = @ + 1]
                  ELSE IF args.rag_method = "tfidf"
                       THEN /\ index' = rag_index
                            /\ args' = IF rag_index.valid THEN args
                                       ELSE [args EXCEPT !.rag_method = "simple"]
                            /\ calls' = [calls EXCEPT !.load = @ + 1, !.prepare = @ + 1]
                       ELSE /\ index' = NoneIndex
                            /\ args' = args
                            /\ calls' = [calls EXCEPT !.load = @ + 1]
       ELSE UNCHANGED <<db, index, args, calls, passed>>
    /\ UNCHANGED <<source, sklearn, history, query, k, sims, out, prompt, reply, passed>>

\* The documents a retrieval result stands for
RetrievedDocs(result, docs) == [i \in 1..Len(result.docs) |-> docs[result.docs[i]]]

\* Mutant of Generate: the two turns are appended to active_history, which
\* is the caller's list when a history was passed
Generate_AppendsToActive(user_input, external, generated) ==
    /\ reply' = IF generated THEN ModelReply ELSE GenerationError
    /\ history' = IF generated /\ ~external.given
                  THEN history \o <<Turn("user", user_input), Turn("assistant", ModelReply)>>
                  ELSE history
    /\ passed' = IF generated /\ external.given
                 THEN Given(external.turns
                            \o <<Turn("user", user_input), Turn("assistant", ModelReply)>>)
                 ELSE passed

\* Mutant of Generate: the return in the except branch forgotten, so that
\* the error text is appended as a reply
Generate_AppendsOnFailure(user_input, external, generated) ==
    /\ reply' = IF generated THEN ModelReply ELSE GenerationError
    /\ history' = IF ~external.given
                  THEN history \o <<Turn("user", user_input), Turn("assistant", reply')>>
                  ELSE history
    /\ passed' = passed

\* The end of ChatSession.chat: generation and the update of the history;
\* the caller's list is as it was
Generate(user_input, external, generated) ==
    /\ reply' = IF generated THEN ModelReply ELSE GenerationError
    /\ history' = IF generated /\ ~external.given
                  THEN history \o <<Turn("user", user_input), Turn("assistant", ModelReply)>>
                  ELSE history
    /\ passed' = passed

\* ChatSession.chat(user_input, history) with retrieval by retrieve_tfidf
ChatTfidf(user_input, external, generated) ==
    LET trimmed_history ==
            Trimmed(IF external.given THEN external.turns ELSE history, args.history_size)
        combined_query == CombinedQuery(trimmed_history, user_input)
    IN /\ pc = "ready"
       /\ calls.chat < MaxTurns
       /\ args.rag /\ args.rag_method = "tfidf" /\ index.valid
       /\ \E similarities \in CosineSimilarities(combined_query, index) :
          \E order \in ArgSorts(similarities) :
             LET retrieved ==
                     retrieve_tfidf(combined_query, index, args.rag_k, similarities, order)
             IN /\ out' = retrieved
                /\ sims' = IF retrieved.path = "rank" THEN similarities ELSE <<>>
                /\ prompt' = build_prompt_with_rag(args.system, trimmed_history, user_input,
                                                   RetrievedDocs(retrieved, index.docs))
       /\ query' = combined_query
       /\ k' = args.rag_k
       /\ calls' = [calls EXCEPT !.chat = @ + 1, !.retrieve_tfidf = @ + 1]
       /\ Generate(user_input, external, generated)
       /\ UNCHANGED <<pc, source, sklearn, args, db, index>>

\* ChatSession.chat(user_input, history) with retrieval by retrieve
ChatSimple(user_input, external, generated) ==
    LET trimmed_history ==
            Trimmed(IF external.given THEN external.turns ELSE history, args.history_size)
        combined_query == CombinedQuery(trimmed_history, user_input)
        retrieved == retrieve(combined_query, db, args.rag_k)
    IN /\ pc = "ready"
       /\ calls.chat < MaxTurns
       /\ args.rag /\ ~(args.rag_method = "tfidf" /\ index.valid)
       /\ out' = retrieved
       /\ sims' = SimpleScores(combined_query, db.docs)
       /\ prompt' = build_prompt_with_rag(args.system, trimmed_history, user_input,
                                          RetrievedDocs(retrieved, db.docs))
       /\ query' = combined_query
       /\ k' = args.rag_k
       /\ calls' = [calls EXCEPT !.chat = @ + 1, !.retrieve = @ + 1]
       /\ Generate(user_input, external, generated)
       /\ UNCHANGED <<pc, source, sklearn, args, db, index>>

\* ChatSession.chat(user_input, history) without retrieval
ChatNoRag(user_input, external, generated) ==
    LET trimmed_history ==
            Trimmed(IF external.given THEN external.turns ELSE history, args.history_size)
    IN /\ pc = "ready"
       /\ calls.chat < MaxTurns
       /\ ~args.rag
       /\ prompt' = build_prompt(args.system, trimmed_history, user_input)
       /\ calls' = [calls EXCEPT !.chat = @ + 1]
       /\ Generate(user_input, external, generated)
       /\ UNCHANGED <<pc, source, sklearn, args, db, index, query, k, sims, out>>

\* bot.chat(user_input, history): the history argument is the caller's list
Chat ==
    \E user_input \in ChatInputs, generated \in BOOLEAN :
        \/ ChatTfidf(user_input, passed, generated)
        \/ ChatSimple(user_input, passed, generated)
        \/ ChatNoRag(user_input, passed, generated)

\* The caller decides what it passes as history to the next call
PassHistory ==
    /\ pc = "ready"
    /\ calls.chat < MaxTurns
    /\ passed' \in ExternalHistories \ {passed}
    /\ UNCHANGED <<pc, source, sklearn, args, db, index, history, query, k, sims, out, prompt, reply, calls>>

Next == Construct \/ Chat \/ PassHistory

Spec == Init /\ [][Next]_vars

-----------------------------------------------------------------------------
(* SpecLoad: one call of a loader on a source.                             *)

\* A record without the instructor field, and one whose instructor is
\* written with a leading space
NoProfessor == Dict(Str(<<"a">>), Absent)
PaddedProfessor == Dict(Str(<<"b">>), Str(<<SP, "a", "b">>))

\* Records whose subject-name field is present but holds the empty text, or
\* null (the value extract.py writes for a page without a subject name)
EmptySubject == Dict(Str(<<>>), Str(<<"b">>))
NullSubject == Dict(Null, Absent)

JsonRecords ==
    {RecordA, RecordC, NoSubject, NoProfessor, PaddedProfessor, NullProfessor,
     EmptySubject, NullSubject, NumberRecord, StringRecord}

\* The rows of a CSV file are mappings; a null is an empty cell
CsvRecords == {r \in JsonRecords : r.type = "dict"}

LoadSources ==
    {Unavailable(kind, "json") : kind \in {"missing", "unparsable", "notlist"}}
    \cup {Unavailable("missing", "csv")}
    \cup {ListSource("json", rs) : rs \in SeqsUpTo(JsonRecords, MaxDocs)}
    \cup {ListSource("csv", rs) : rs \in SeqsUpTo(CsvRecords, MaxDocs)}

InitLoad ==
    /\ pc = "load"
    /\ sklearn = TRUE
    /\ source \in LoadSources
    /\ args = NoArgs
    /\ db = NoneDb
    /\ index = NoneIndex
    /\ history = <<>>
    /\ query = <<>>
    /\ k = 0
    /\ sims = <<>>
    /\ out = NoResult
    /\ prompt = <<>>
    /\ reply = <<>>
    /\ calls = NoCalls
    /\ passed = NoHistory

LoadJson ==
    /\ pc = "load"
    /\ source.fmt = "json"
    /\ db' = load_course_db(source)
    /\ pc' = "loaded"
    /\ calls' = [calls EXCEPT !.load = @ + 1]
    /\ UNCHANGED <<source, sklearn, args, index, history, query, k, sims, out, prompt, reply, passed>>

LoadCsv ==
    /\ pc = "load"
    /\ source.fmt = "csv"
    /\ db' = load_course_db_from_csv(source)
    /\ pc' = "loaded"
    /\ calls' = [calls EXCEPT !.load = @ + 1]
    /\ UNCHANGED <<source, sklearn, args, index, history, query, k, sims, out, prompt, reply, passed>>

NextLoad == LoadJson \/ LoadCsv

SpecLoad == InitLoad /\ [][NextLoad]_vars

\* SpecNegation: as SpecRetrieve, for queries that may carry the negation
\* marker (the equivalent of "except") among their characters
NegationMarker == "except"

InitNegation ==
    /\ pc = "call"
    /\ sklearn = TRUE
    /\ source \in {ListSource("json", rs) : rs \in SeqsUpTo(RetrievalRecords, MaxDocs) \ {<<>>}}
    /\ db = load_course_db(source)
    /\ index = prepare_tfidf_index(db)
    /\ query \in {q \in SeqsUpTo(QueryChars \cup {NegationMarker}, MaxQueryLen) :
                     \E i \in 1..Len(q) : q[i] = NegationMarker}
    /\ k \in 0..MaxK
    /\ args = NoArgs
    /\ history = <<>>
    /\ sims = <<>>
    /\ out = NoResult
    /\ prompt = <<>>
    /\ reply = <<>>
    /\ calls = NoCalls
    /\ passed = NoHistory

SpecNegation == InitNegation /\ [][NextRetrieve]_vars

-----------------------------------------------------------------------------
(* SpecServer: the /chat requests of server.py, each answered by one call  *)
(* of run_chat.get_ai_response_one_shot.                                   *)

\* The SimpleNamespace config of get_ai_response_one_shot
ServerConfig ==
    [rag |-> TRUE, rag_method |-> "tfidf", rag_k |-> 3, history_size |-> 12,
     system |-> <<"[system]">>]

\* config.rag_db is a .csv path
ServerSources ==
    {Unavailable("missing", "csv"), ListSource("csv", <<RecordA>>),
     ListSource("csv", <<RecordA, RecordC>>), ListSource("csv", <<RecordC, RecordA, RecordC>>)}

\* The histories parse_history_param hands over
RequestHistories == {<<>>, <<Turn("user", <<"a">>), Turn("assistant", <<"b">>)>>}

\* Mutant of NewSession: an index built by an earlier request is used again
\* without a look at the corpus
NewSession_KeepsIndex ==
    LET course_db_wrapper == LoadBySuffix(source)
        rag_index == IF ~course_db_wrapper.valid THEN NoneIndex
                     ELSE IF index.valid THEN index
                     ELSE prepare_tfidf_index(course_db_wrapper)
    IN [db |-> course_db_wrapper,
        index |-> rag_index,
        args |-> IF ~course_db_wrapper.valid THEN [ServerConfig EXCEPT !.rag = FALSE]
                 ELSE IF ~rag_index.valid THEN [ServerConfig EXCEPT !.rag_method = "simple"]
                 ELSE ServerConfig,
        calls |-> [calls EXCEPT !.load = @ + 1, !.chat = @ + 1]]

\* bot = ChatSession(config): the session a request constructs
NewSession ==
    LET course_db_wrapper == LoadBySuffix(source)
        rag_index == IF course_db_wrapper.valid
                     THEN prepare_tfidf_index(course_db_wrapper) ELSE NoneIndex
    IN [db |-> course_db_wrapper,
        index |-> rag_index,
        args |-> IF ~course_db_wrapper.valid THEN [ServerConfig EXCEPT !.rag = FALSE]
                 ELSE IF ~rag_index.valid THEN [ServerConfig EXCEPT !.rag_method = "simple"]
                 ELSE ServerConfig,
        calls |-> [calls EXCEPT !.load = @ + 1,
                                !.prepare = IF course_db_wrapper.valid THEN @ + 1 ELSE @,
                                !.chat = @ + 1]]

InitServer ==
    /\ pc = "serving"
    /\ sklearn \in BOOLEAN
    /\ source \in ServerSources
    /\ args = NoArgs
    /\ db = NoneDb
    /\ index = NoneIndex
    /\ history = <<>>
    /\ query = <<>>
    /\ k = 0
    /\ sims = <<>>
    /\ out = NoResult
    /\ prompt = <<>>
    /\ reply = <<>>
    /\ calls = NoCalls
    /\ passed = NoHistory

\* What every request does: a new session, and its reply; the session's own
\* history stays empty because the request passes its history
Serve(bot, generated) ==
    /\ pc = "serving"
    /\ calls.chat < MaxTurns
    /\ db' = bot.db
    /\ index' = bot.index
    /\ args' = bot.args
    /\ k' = bot.args.rag_k
    /\ reply' = IF generated THEN ModelReply ELSE GenerationError
    /\ UNCHANGED <<pc, source, sklearn, history, passed>>

\* get_ai_response_one_shot answered with retrieve_tfidf
OneShotTfidf(current_history, new_input, generated) ==
    LET bot == NewSession
        trimmed_history == Trimmed(current_history, bot.args.history_size)
        combined_query == CombinedQuery(trimmed_history, new_input)
    IN /\ bot.args.rag /\ bot.args.rag_method = "tfidf" /\ bot.index.valid
       /\ Serve(bot, generated)
       /\ \E similarities \in CosineSimilarities(combined_query, bot.index) :
          \E order \in ArgSorts(similarities) :
             LET retrieved ==
                     retrieve_tfidf(combined_query, bot.index, bot.args.rag_k, similarities, order)
             IN /\ out' = retrieved
                /\ sims' = IF retrieved.path = "rank" THEN similarities ELSE <<>>
                /\ prompt' = build_prompt_with_rag(bot.args.system, trimmed_history, new_input,
                                                   RetrievedDocs(retrieved, bot.index.docs))
       /\ query' = combined_query
       /\ calls' = [bot.calls EXCEPT !.retrieve_tfidf = @ + 1]

\* get_ai_response_one_shot answered with retrieve (sklearn missing)
OneShotSimple(current_history, new_input, generated) ==
    LET bot == NewSession
        trimmed_history == Trimmed(current_history, bot.args.history_size)
        combined_query == CombinedQuery(trimmed_history, new_input)
        retrieved == retrieve(combined_query, bot.db, bot.args.rag_k)
    IN /\ bot.args.rag /\ ~(bot.args.rag_method = "tfidf" /\ bot.index.valid)
       /\ Serve(bot, generated)
       /\ out' = retrieved
       /\ sims' = SimpleScores(combined_query, bot.db.docs)
       /\ prompt' = build_prompt_with_rag(bot.args.system, trimmed_history, new_input,
                                          RetrievedDocs(retrieved, bot.db.docs))
       /\ query' = combined_query
       /\ calls' = [bot.calls EXCEPT !.retrieve = @ + 1]

\* get_ai_response_one_shot answered without retrieval (no corpus)
OneShotNoRag(current_history, new_input, generated) ==
    LET bot == NewSession
        trimmed_history == Trimmed(current_history, bot.args.history_size)
    IN /\ ~bot.args.rag
       /\ Serve(bot, generated)
       /\ prompt' = build_prompt(bot.args.system, trimmed_history, new_input)
       /\ calls' = bot.calls
       /\ UNCHANGED <<query, sims, out, passed>>

get_ai_response_one_shot ==
    \E current_history \in RequestHistories, new_input \in ChatInputs, generated \in BOOLEAN :
        \/ OneShotTfidf(current_history, new_input, generated)
        \/ OneShotSimple(current_history, new_input, generated)
        \/ OneShotNoRag(current_history, new_input, generated)

\* Between two requests the file at config.rag_db is replaced by another
FileChanged ==
    /\ pc = "serving"
    /\ source' \in ServerSources \ {source}
    /\ UNCHANGED <<pc, sklearn, args, db, index, history, query, k, sims, out, prompt, reply, calls, passed>>

NextServer == get_ai_response_one_shot \/ FileChanged

SpecServer == InitServer /\ [][NextServer]_vars

-----------------------------------------------------------------------------
(* SpecPrompt: one call of build_prompt_with_rag.                          *)

\* The corpus the retrieved documents are taken from
PromptCorpus == load_course_db(ListSource("json", <<RecordA, RecordC, NoProfessor>>))

\* Lists of retrieved documents, as positions in the corpus
RetrievedLists == SeqsUpTo(1..Len(PromptCorpus.docs), MaxDocs)

PromptTurns ==
    {Turn("user", <<"a">>), Turn("assistant", <<"b">>), Turn("user", <<"b", NL, "a">>)}

PromptHistories == SeqsUpTo(PromptTurns, MaxTurns)

SystemInstructions == {<<>>, <<"[system]">>}

InitPrompt ==
    /\ pc = "call"
    /\ sklearn = TRUE
    /\ source = ListSource("json", <<RecordA, RecordC, NoProfessor>>)
    /\ db = PromptCorpus
    /\ index = NoneIndex
    /\ \E system \in SystemInstructions : args = [NoArgs EXCEPT !.system = system]
    /\ history \in PromptHistories
    /\ query \in ChatInputs
    /\ \E retrieved \in RetrievedLists : out = [NoResult EXCEPT !.docs = retrieved]
    /\ k = 0
    /\ sims = <<>>
    /\ prompt = <<>>
    /\ reply = <<>>
    /\ calls = NoCalls
    /\ passed = NoHistory

\* build_prompt_with_rag(system, history, user_input, retrieved_docs)
CallBuildPromptWithRag ==
    /\ pc = "call"
    /\ prompt' = build_prompt_with_rag(args.system, history, query, RetrievedDocs(out, db.docs))
    /\ pc' = "prompt"
    /\ UNCHANGED <<source, sklearn, args, db, index, history, query, k, sims, out, reply, calls, passed>>

NextPrompt == CallBuildPromptWithRag

SpecPrompt == InitPrompt /\ [][NextPrompt]_vars

-----------------------------------------------------------------------------
(* SpecConcurrent: two callers that share one corpus, one index and one    *)
(* history list.  Each retrieves (retrieve_tfidf or retrieve) and then     *)
(* assembles a prompt; a step is one passage of a function over the shared *)
(* data, and the steps of the callers interleave.  pc, query, k, sims, out *)
(* and prompt hold one value per caller (the locals of its calls).         *)

Callers == {"c1", "c2"}

ConcurrentSources ==
    {ListSource("json", <<RecordA, RecordC>>), ListSource("json", <<RecordC, RecordA, RecordC>>)}

\* The history list every caller passes
SharedHistory == <<Turn("user", <<"a">>), Turn("assistant", <<"b">>)>>

InitConcurrent ==
    /\ pc = [c \in Callers |-> "start"]
    /\ sklearn = TRUE
    /\ source \in ConcurrentSources
    /\ db = load_course_db(source)
    /\ index = prepare_tfidf_index(db)
    /\ args = [NoArgs EXCEPT !.system = <<"[system]">>]
    /\ history = SharedHistory
    /\ query \in [Callers -> ChatInputs]
    /\ k \in [Callers -> {1, MaxK}]
    /\ sims = [c \in Callers |-> <<>>]
    /\ out = [c \in Callers |-> NoResult]
    /\ prompt = [c \in Callers |-> <<>>]
    /\ reply = <<>>
    /\ calls = NoCalls
    /\ passed = NoHistory

\* retrieve_tfidf: the loop over the instructor names of the metadata
TfidfMatch(c) ==
    /\ pc[c] = "start"
    /\ out' = [out EXCEPT ![c].matched = MatchedProfessors(query[c], index.professors)]
    /\ pc' = [pc EXCEPT ![c] = "matched"]
    /\ UNCHANGED <<source, sklearn, args, db, index, history, query, k, sims, prompt, reply, calls, passed>>

\* retrieve_tfidf: the filter loop over the documents, and the early return
TfidfFilter(c) ==
    LET filtered_results == FilteredResults(index.docs, out[c].matched)
    IN /\ pc[c] = "matched"
       /\ IF out[c].matched # {} /\ filtered_results # <<>>
          THEN /\ out' = [out EXCEPT ![c].docs = filtered_results, ![c].path = "filter"]
               /\ pc' = [pc EXCEPT ![c] = "retrieved"]
          ELSE /\ out' = out
               /\ pc' = [pc EXCEPT ![c] = "filtered"]
       /\ UNCHANGED <<source, sklearn, args, db, index, history, query, k, sims, prompt, reply, calls, passed>>

\* retrieve_tfidf: vectorizer.transform and cosine_similarity
TfidfScore(c) ==
    /\ pc[c] = "filtered"
    /\ \E similarities \in CosineSimilarities(query[c], index) :
          sims' = [sims EXCEPT ![c] = similarities]
    /\ pc' = [pc EXCEPT ![c] = "scored"]
    /\ UNCHANGED <<source, sklearn, args, db, index, history, query, k, out, prompt, reply, calls, passed>>

\* retrieve_tfidf: argsort and the loop over the top indices
TfidfRank(c) ==
    /\ pc[c] = "scored"
    /\ \E order \in ArgSorts(sims[c]) :
          out' = [out EXCEPT ![c].docs = RankedResults(TopIndices(order, k[c]), sims[c]),
                             ![c].path = "rank"]
    /\ pc' = [pc EXCEPT ![c] = "retrieved"]
    /\ UNCHANGED <<source, sklearn, args, db, index, history, query, k, sims, prompt, reply, calls, passed>>

\* retrieve: the scoring loop over the documents
SimpleScoreDocs(c) ==
    /\ pc[c] = "start"
    /\ sims' = [sims EXCEPT ![c] = SimpleScores(query[c], db.docs)]
    /\ pc' = [pc EXCEPT ![c] = "simple_scored"]
    /\ UNCHANGED <<source, sklearn, args, db, index, history, query, k, out, prompt, reply, calls, passed>>

\* retrieve: the sort of the scored documents and the cut
SimpleSort(c) ==
    LET Scored(i) == sims[c][i] > 0
        scored_docs == SelectSeq(Positions(Len(sims[c])), Scored)
    IN /\ pc[c] = "simple_scored"
       /\ out' = [out EXCEPT ![c].docs = Take(StableSortDesc(scored_docs, sims[c]), k[c]),
                             ![c].path = "simple"]
       /\ pc' = [pc EXCEPT ![c] = "retrieved"]
       /\ UNCHANGED <<source, sklearn, args, db, index, history, query, k, sims, prompt, reply, calls, passed>>

\* Mutant of Assemble: the new input is appended to the history list that
\* was passed
Assemble_AppendsToHistory(c) ==
    /\ pc[c] = "retrieved"
    /\ prompt' = [prompt EXCEPT ![c] = build_prompt_with_rag(args.system, history, query[c],
                                                             RetrievedDocs(out[c], db.docs))]
    /\ history' = Append(history, Turn("user", query[c]))
    /\ pc' = [pc EXCEPT ![c] = "done"]
    /\ UNCHANGED <<source, sklearn, args, db, index, query, k, sims, out, reply, calls, passed>>

\* build_prompt_with_rag on the documents the caller has retrieved
Assemble(c) ==
    /\ pc[c] = "retrieved"
    /\ prompt' = [prompt EXCEPT ![c] = build_prompt_with_rag(args.system, history, query[c],
                                                             RetrievedDocs(out[c], db.docs))]
    /\ pc' = [pc EXCEPT ![c] = "done"]
    /\ UNCHANGED <<source, sklearn, args, db, index, history, query, k, sims, out, reply, calls, passed>>

NextConcurrent ==
    \E c \in Callers :
        \/ TfidfMatch(c)
        \/ TfidfFilter(c)
        \/ TfidfScore(c)
        \/ TfidfRank(c)
        \/ SimpleScoreDocs(c)
        \/ SimpleSort(c)
        \/ Assemble(c)

SpecConcurrent == InitConcurrent /\ [][NextConcurrent]_vars

-----------------------------------------------------------------------------
(* SpecGenerate: one call of generate(model, prompt, prefer_langchain).    *)
(* A step is one passage of generate or of run_with_ollama_cli up to the   *)
(* next backend it invokes.  In this specification args holds the          *)
(* argument prefer_langchain and what the machine offers, and out is the   *)
(* log of the backends invoked, each with what it gave back.               *)

\* One invocation of a backend and its outcome: "ok", "raised" (any
\* exception but CalledProcessError) or "failed" (CalledProcessError), with
\* the text it printed
Invocation(backend, outcome, output) ==
    [backend |-> backend, outcome |-> outcome, output |-> output]

\* What the model prints: the reply, with white space around it
ModelOutput == <<SP>> \o ModelReply \o <<NL>>

\* The lower-cased outputs (stdout, newline, stderr) of a failed ollama run
FailureOutputs ==
    {<<"error:", SP, "unknown flag", SP, "--", "p">>,
     <<"unrecognized option">>,
     <<"usage", SP, "--prompt">>,
     <<"error:", SP, "model", SP, "not", SP, "found">>,
     <<>>}

\* Mutant of FallsBackToStdin: every failure of the first form is retried
FallsBackToStdin_Always(combined) == TRUE

\* The test run_with_ollama_cli makes on the output of the failed first form
FallsBackToStdin(combined) ==
    \/ Contains(<<"unknown flag">>, combined)
    \/ Contains(<<"unrecognized option">>, combined)
    \/ Contains(<<"--prompt">>, combined)

GeneratePrompts ==
    {build_prompt(system, <<>>, user_input) :
        system \in SystemInstructions, user_input \in ChatInputs}

InitGenerate ==
    /\ pc = "generate"
    /\ sklearn = TRUE
    /\ source = Unavailable("missing", "json")
    /\ args \in [prefer_langchain : BOOLEAN, langchain_available : BOOLEAN,
                  ollama_in_path : BOOLEAN]
    /\ db = NoneDb
    /\ index = NoneIndex
    /\ history = <<>>
    /\ query = <<>>
    /\ k = 0
    /\ sims = <<>>
    /\ out = <<>>
    /\ prompt \in GeneratePrompts
    /\ reply = <<>>
    /\ calls = NoCalls
    /\ passed = NoHistory

\* generate: run_with_langchain inside the try
TryLangchain ==
    /\ pc = "generate"
    /\ args.prefer_langchain /\ args.langchain_available
    /\ \/ /\ out' = Append(out, Invocation("langchain", "ok", ModelOutput))
          /\ reply' = ModelOutput
          /\ pc' = "returned"
       \/ /\ out' = Append(out, Invocation("langchain", "raised", <<>>))
          /\ reply' = reply
          /\ pc' = "cli"
    /\ UNCHANGED <<source, sklearn, args, db, index, history, query, k, sims, prompt, calls, passed>>

\* generate: straight to run_with_ollama_cli
SkipLangchain ==
    /\ pc = "generate"
    /\ ~(args.prefer_langchain /\ args.langchain_available)
    /\ pc' = "cli"
    /\ UNCHANGED <<source, sklearn, args, db, index, history, query, k, sims, out, prompt, reply, calls, passed>>

\* run_with_ollama_cli: shutil.which("ollama") is None
OllamaNotFound ==
    /\ pc = "cli"
    /\ ~args.ollama_in_path
    /\ pc' = "raised"
    /\ UNCHANGED <<source, sklearn, args, db, index, history, query, k, sims, out, prompt, reply, calls, passed>>

\* run_with_ollama_cli: ollama run model --prompt prompt
RunWithPromptFlag ==
    /\ pc = "cli"
    /\ args.ollama_in_path
    /\ \/ /\ out' = Append(out, Invocation("cli --prompt", "ok", ModelOutput))
          /\ reply' = Strip(ModelOutput)
          /\ pc' = "returned"
       \/ /\ out' = Append(out, Invocation("cli --prompt", "raised", <<>>))
          /\ reply' = reply
          /\ pc' = "raised"
       \/ \E combined \in FailureOutputs :
             /\ out' = Append(out, Invocation("cli --prompt", "failed", combined))
             /\ reply' = reply
             /\ pc' = IF FallsBackToStdin(combined) THEN "stdin" ELSE "raised"
    /\ UNCHANGED <<source, sklearn, args, db, index, history, query, k, sims, prompt, calls, passed>>

\* run_with_ollama_cli: ollama run model, the prompt on stdin
RunWithStdin ==
    /\ pc = "stdin"
    /\ \/ /\ out' = Append(out, Invocation("cli stdin", "ok", ModelOutput))
          /\ reply' = Strip(ModelOutput)
          /\ pc' = "returned"
       \/ \E outcome \in {"raised", "failed"} :
             /\ out' = Append(out, Invocation("cli stdin", outcome, <<>>))
             /\ reply' = reply
             /\ pc' = "raised"
    /\ UNCHANGED <<source, sklearn, args, db, index, history, query, k, sims, prompt, calls, passed>>

NextGenerate ==
    \/ TryLangchain
    \/ SkipLangchain
    \/ OllamaNotFound
    \/ RunWithPromptFlag
    \/ RunWithStdin

SpecGenerate == InitGenerate /\ [][NextGenerate]_vars

-----------------------------------------------------------------------------
(* SpecFilter: one retrieval call against an index built by either loader  *)
(* from records whose instructor names are written in different ways.      *)

\* An instructor name with a line break inside
NewlineProfessor == Dict(Str(<<"c">>), Str(<<"a", NL, "b">>))

FilterRecords == {RecordA, RecordC, PaddedProfessor, NewlineProfessor}

\* Files of one or two records, in JSON and in CSV
FilterSources ==
    {ListSource(fmt, rs) :
        fmt \in {"json", "csv"},
        rs \in {<<r>> : r \in FilterRecords} \cup (FilterRecords \X FilterRecords)}

InitFilter ==
    /\ pc = "call"
    /\ sklearn = TRUE
    /\ source \in FilterSources
    /\ db = LoadBySuffix(source)
    /\ index = prepare_tfidf_index(db)
    /\ query \in Queries
    /\ k = 1
    /\ args = NoArgs
    /\ history = <<>>
    /\ sims = <<>>
    /\ out = NoResult
    /\ prompt = <<>>
    /\ reply = <<>>
    /\ calls = NoCalls
    /\ passed = NoHistory

SpecFilter == InitFilter /\ [][NextRetrieve]_vars

-----------------------------------------------------------------------------
(* SpecWindow: two calls of ChatSession.chat on one session, with the same *)
(* new input and with passed histories that differ at most in the texts of *)
(* their assistant turns.  pc, query, sims, out, prompt and reply hold one *)
(* value per call; passed holds the arguments of each call; sims holds     *)
(* what cosine_similarity and argsort gave the call.                       *)

Runs == {"left", "right"}

WindowTurns ==
    {Turn("user", <<"a">>), Turn("assistant", <<"a", "b">>), Turn("assistant", <<"b">>)}

WindowHistories == SeqsUpTo(WindowTurns, MaxTurns)

\* The arguments of one call
ChatCall(turns, user_input) == [given |-> TRUE, turns |-> turns, user_input |-> user_input]

\* Two histories with the same roles and the same user texts
SameButAssistantTexts(h1, h2) ==
    /\ Len(h1) = Len(h2)
    /\ \A i \in 1..Len(h1) :
          /\ h1[i].role = h2[i].role
          /\ h1[i].role = "user" => h1[i].text = h2[i].text

NoOracle == [similarities |-> <<>>, order |-> <<>>]

InitWindow ==
    /\ pc = [r \in Runs |-> "call"]
    /\ sklearn = TRUE
    /\ source = ListSource("json", <<RecordC, RecordA, RecordC>>)
    /\ db = load_course_db(source)
    /\ index = prepare_tfidf_index(db)
    /\ args \in [rag : {TRUE}, rag_method : {"tfidf", "simple"}, rag_k : {MaxK},
                  history_size : HistorySizes, system : {<<"[system]">>}]
    /\ history = <<>>
    /\ \E h1 \in WindowHistories, h2 \in WindowHistories, user_input \in ChatInputs :
          /\ SameButAssistantTexts(h1, h2)
          /\ passed = [r \in Runs |-> ChatCall(IF r = "left" THEN h1 ELSE h2, user_input)]
    /\ query = [r \in Runs |-> <<>>]
    /\ k = args.rag_k
    /\ sims = [r \in Runs |-> NoOracle]
    /\ out = [r \in Runs |-> NoResult]
    /\ prompt = [r \in Runs |-> <<>>]
    /\ reply = [r \in Runs |-> <<>>]
    /\ calls = NoCalls

\* cosine_similarity and argsort are functions: a call with the query of an
\* earlier call gets the values that call got
SameAsEarlier(r, combined_query, oracle) ==
    \A o \in Runs \ {r} : (pc[o] = "done" /\ query[o] = combined_query) => oracle = sims[o]

\* bot.chat(user_input, history) of run r, with retrieval by retrieve_tfidf
WindowChatTfidf(r, generated) ==
    LET trimmed_history == Trimmed(passed[r].turns, args.history_size)
        combined_query == CombinedQuery(trimmed_history, passed[r].user_input)
    IN /\ pc[r] = "call"
       /\ args.rag_method = "tfidf" /\ index.valid
       /\ \E similarities \in CosineSimilarities(combined_query, index) :
          \E order \in ArgSorts(similarities) :
             LET oracle == [similarities |-> similarities, order |-> order]
                 retrieved ==
                     retrieve_tfidf(combined_query, index, args.rag_k, similarities, order)
             IN /\ SameAsEarlier(r, combined_query, oracle)
                /\ sims' = [sims EXCEPT ![r] = oracle]
                /\ out' = [out EXCEPT ![r] = retrieved]
                /\ prompt' = [prompt EXCEPT ![r] =
                                 build_prompt_with_rag(args.system, trimmed_history,
                                                       passed[r].user_input,
                                                       RetrievedDocs(retrieved, index.docs))]
       /\ query' = [query EXCEPT ![r] = combined_query]
       /\ reply' = [reply EXCEPT ![r] = IF generated THEN ModelReply ELSE GenerationError]
       /\ pc' = [pc EXCEPT ![r] = "done"]
       /\ calls' = [calls EXCEPT !.chat = @ + 1, !.retrieve_tfidf = @ + 1]
       /\ UNCHANGED <<source, sklearn, args, db, index, history, k, passed>>

\* bot.chat(user_input, history) of run r, with retrieval by retrieve
WindowChatSimple(r, generated) ==
    LET trimmed_history == Trimmed(passed[r].turns, args.history_size)
        combined_query == CombinedQuery(trimmed_history, passed[r].user_input)
        retrieved == retrieve(combined_query, db, args.rag_k)
    IN /\ pc[r] = "call"
       /\ ~(args.rag_method = "tfidf" /\ index.valid)
       /\ out' = [out EXCEPT ![r] = retrieved]
       /\ prompt' = [prompt EXCEPT ![r] =
                        build_prompt_with_rag(args.system, trimmed_history,
                                              passed[r].user_input,
                                              RetrievedDocs(retrieved, db.docs))]
       /\ query' = [query EXCEPT ![r] = combined_query]
       /\ reply' = [reply EXCEPT ![r] = IF generated THEN ModelReply ELSE GenerationError]
       /\ pc' = [pc EXCEPT ![r] = "done"]
       /\ calls' = [calls EXCEPT !.chat = @ + 1, !.retrieve = @ + 1]
       /\ UNCHANGED <<source, sklearn, args, db, index, history, k, sims, passed>>

NextWindow ==
    \E r \in Runs, generated \in BOOLEAN :
        \/ WindowChatTfidf(r, generated)
        \/ WindowChatSimple(r, generated)

SpecWindow == InitWindow /\ [][NextWindow]_vars

-----------------------------------------------------------------------------
(* Vocabulary of the claims about retrieval *)

Max(x, y) == IF x >= y THEN x ELSE y
Min(x, y) == IF x <= y THEN x ELSE y

\* name occurs in text as a contiguous run
Occurs(name, text) ==
    \E i \in 1..Len(text) :
        /\ i + Len(name) - 1 <= Len(text)
        /\ \A j \in 1..Len(name) : text[i + j - 1] = name[j]

\* text without the characters of the set drop
RECURSIVE Without(_, _)
Without(text, drop) ==
    IF text = <<>> THEN <<>>
    ELSE (IF Head(text) \in drop THEN <<>> ELSE <<Head(text)>>) \o Without(Tail(text), drop)

\* The known names of length >= 2 found in the query once the characters of
\* drop are taken out of the query
NamedInstructors(drop) ==
    {n \in index.professors : Len(n) >= 2 /\ Occurs(n, Without(query, drop))}

\* The corpus positions of the documents by one of these instructors
DocsBy(names) ==
    {i \in 1..Len(index.docs) : Without(index.docs[i].professor, {SP, ZSP}) \in names}

\* The positions of a set in ascending order
RECURSIVE Ascending(_)
Ascending(S) ==
    IF S = {} THEN <<>>
    ELSE LET m == CHOOSE x \in S : \A y \in S : x <= y
         IN <<m>> \o Ascending(S \ {m})

Returned == {out.docs[i] : i \in 1..Len(out.docs)}

Ranked == (pc = "tfidf" /\ out.path = "rank") \/ pc = "simple"

PositiveDocs == {i \in 1..Len(sims) : sims[i] > 0}

\* C1: retrieval returns at most max(k, number of instructor-filter hits)
\* documents, and every returned document is a document of the corpus held
\* by the index.
C1_BoundedAndFromCorpus ==
    pc \in {"tfidf", "simple"} =>
        /\ Len(out.docs) <= Max(k, Cardinality(DocsBy(NamedInstructors({SP, ZSP}))))
        /\ Returned \subseteq 1..Len(index.docs)
        /\ pc = "simple" => Len(out.docs) <= k

C1_Witness ==
    /\ pc = "tfidf"
    /\ k = 1
    /\ Len(out.docs) = 2
    /\ Len(index.docs) = 3

C3_NegatedInstructorExcluded ==
    (pc = "tfidf" /\ Occurs(<<NegationMarker>>, query)) =>
        \A x \in {n \in index.professors : Occurs(n, Without(query, {SP, ZSP}))} :
            \A i \in Returned : Without(index.docs[i].professor, {SP, ZSP}) # x

\* C4: similarity ranking returns only documents with a score strictly
\* greater than zero; a query that shares no n-gram with any document and
\* names no instructor gets the empty list from retrieve_tfidf, and a query
\* that occurs in no document, as a whole or by one of its terms, gets the
\* empty list from retrieve.
C4_OnlyPositiveScores ==
    /\ Ranked => \A i \in Returned : sims[i] > 0
    /\ (pc = "tfidf" /\ NamedInstructors({SP, ZSP}) = {}
          /\ \A i \in 1..Len(index.docs) : NGrams(query) \cap NGrams(index.docs[i].text) = {})
        => out.docs = <<>>
    /\ (pc = "simple"
          /\ \A i \in 1..Len(db.docs) :
                /\ ~Contains(query, db.docs[i].text)
                /\ \A t \in 1..Len(QueryTerms(query)) :
                      ~Occurs(QueryTerms(query)[t], db.docs[i].text))
        => out.docs = <<>>

C4_Witness ==
    /\ pc = "tfidf"
    /\ out.path = "rank"
    /\ k = 2
    /\ Len(query) >= 2
    /\ Len(index.docs) >= 2
    /\ out.docs = <<>>

\* C5: in a similarity ranking the scores are non-increasing in result
\* order, and the result is the k highest-scoring documents with a positive
\* score.
C5_RankedByScore ==
    Ranked =>
        /\ \A i, j \in 1..Len(out.docs) : i < j => sims[out.docs[i]] >= sims[out.docs[j]]
        /\ Len(out.docs) = Min(k, Cardinality(PositiveDocs))
        /\ Returned \subseteq PositiveDocs
        /\ \A r \in Returned : \A u \in PositiveDocs \ Returned : sims[r] >= sims[u]

C5_Witness ==
    /\ pc = "tfidf"
    /\ out.path = "rank"
    /\ Len(out.docs) = 2
    /\ sims[out.docs[1]] > sims[out.docs[2]]
    /\ PositiveDocs \ Returned # {}

\* C6: in retrieve_tfidf's ranking, of two documents with equal scores the
\* one earlier in the corpus comes earlier in the result, and is the one
\* kept when k cuts between them.
C6_TiesKeepCorpusOrder ==
    (pc = "tfidf" /\ out.path = "rank") =>
        /\ \A i, j \in 1..Len(out.docs) :
              (i < j /\ sims[out.docs[i]] = sims[out.docs[j]]) => out.docs[i] < out.docs[j]
        /\ \A r \in Returned : \A u \in PositiveDocs \ Returned :
              sims[r] = sims[u] => r < u

\* C7 as stated: every known name of length >= 2 that occurs in the query
\* with all whitespace taken out is recorded as matched.
C7_MatchAfterAllWhitespaceStripped ==
    pc = "tfidf" => NamedInstructors(Whitespace) \subseteq out.matched

\* C7 as amended: every known name of length >= 2 that occurs in the query
\* with its ASCII and ideographic spaces taken out is recorded as matched
\* and the instructor filter decides the result; a name shorter than 2 is
\* never matched, and without a match the filter is not used.
C7_MatchAfterSpacesStripped ==
    pc = "tfidf" =>
        /\ NamedInstructors({SP, ZSP}) \subseteq out.matched
        /\ \A n \in out.matched : Len(n) >= 2 /\ n \in index.professors
        /\ out.path = "filter" => out.matched # {}
        /\ (NamedInstructors({SP, ZSP}) # {} /\ DocsBy(NamedInstructors({SP, ZSP})) # {})
              => out.path = "filter"

C7_Witness ==
    /\ pc = "tfidf"
    /\ out.matched = {<<"a", "b">>}
    /\ Occurs(<<"b">>, query)
    /\ <<"b">> \in index.professors
    /\ Occurs(<<SP>>, query)

-----------------------------------------------------------------------------
(* Vocabulary of the claims about loading *)

\* Does the record carry a subject name, as its format can express it:
\* the key in a JSON mapping, a non-empty cell in a CSV row
HasSubject(fmt, r) ==
    IF fmt = "json" THEN r.type = "dict" /\ r.subject.present
    ELSE r.subject.present /\ ~r.subject.null /\ r.subject.val # <<>>

\* A malformed record: no mapping, or a mapping with a null instructor
\* (in a CSV file every row is a mapping of texts)
Malformed(fmt, r) ==
    fmt = "json" /\ (r.type # "dict" \/ (r.professor.present /\ r.professor.null))

\* The subject names of these records, in order
SubjectsOf(kept) == [i \in 1..Len(kept) |-> kept[i].subject]

LoadedTitles == [i \in 1..Len(db.docs) |-> db.docs[i].title]

\* The source is missing, cannot be parsed, or yields no usable document
SourceUnavailable ==
    \/ source.kind # "list"
    \/ \A i \in 1..Len(source.records) : ~HasSubject(source.fmt, source.records[i])

ContextSymbols == {CtxIntro, CtxListHint, CtxHeader, CtxFooter, NotFoundLine, "[info"}

\* C8: with a source that is missing, unparsable or without usable
\* documents the loader returns its failure value, the session switches
\* retrieval off, and every chat turn builds a prompt without any retrieved
\* context and without calling a retrieval function.
C8_UnavailableCorpusDisablesRetrieval ==
    (pc = "ready" /\ calls.load > 0 /\ SourceUnavailable) =>
        /\ ~db.valid
        /\ ~args.rag
        /\ calls.retrieve_tfidf = 0 /\ calls.retrieve = 0
        /\ out = NoResult
        /\ calls.chat > 0 =>
              /\ prompt # <<>>
              /\ prompt[Len(prompt)] = AssistantLabel
              /\ \A i \in 1..Len(prompt) : prompt[i] \notin ContextSymbols

C8_Witness ==
    /\ pc = "ready"
    /\ calls.load = 1
    /\ source = ListSource("json", <<NoSubject>>)
    /\ calls.chat = 2
    /\ prompt # <<>>

\* C9: a malformed record is skipped on its own; every well-formed record
\* before and after it is still loaded.
C9_MalformedRecordSkipped ==
    (pc = "loaded" /\ source.kind = "list") =>
        LET WellFormedWithSubject(r) ==
                ~Malformed(source.fmt, r) /\ HasSubject(source.fmt, r)
        IN LoadedTitles = SubjectsOf(SelectSeq(source.records, WellFormedWithSubject))

\* C10: the loader produces one document for each record that has the
\* subject-name field and none for the others, in source order, and
\* reports no failure as long as one document remains.
C10_OneDocumentPerSubjectRecord ==
    (pc = "loaded" /\ source.kind = "list") =>
        LET WithSubject(r) == HasSubject(source.fmt, r)
        IN /\ LoadedTitles = SubjectsOf(SelectSeq(source.records, WithSubject))
           /\ db.valid <=> (\E i \in 1..Len(source.records) : WithSubject(source.records[i]))

\* C11: every document of a loaded corpus has a non-empty text and a
\* non-empty title; a record whose subject name is absent, null or empty
\* produces no document, with the JSON loader and with the CSV loader.
C11_DocumentsHaveTextAndTitle ==
    pc = "loaded" =>
        \A i \in 1..Len(db.docs) :
            /\ db.docs[i].text # <<>>
            /\ ~db.docs[i].title.null
            /\ db.docs[i].title.val # <<>>

-----------------------------------------------------------------------------
(* Vocabulary of the claims about the session *)

\* The index was requested (the session was configured for "tfidf" and the
\* corpus was loaded) but sklearn is not installed
IndexUnavailable == pc = "ready" /\ ~sklearn /\ calls.prepare > 0

\* C12: when the index cannot be prepared the session switches to the
\* simple strategy at construction, every chat turn retrieves with it,
\* retrieve_tfidf is never called without an index, and every turn returns
\* a reply.
C12_FallbackToSimpleRetrieval ==
    /\ IndexUnavailable =>
           /\ ~index.valid
           /\ args.rag /\ args.rag_method = "simple"
           /\ calls.retrieve_tfidf = 0
           /\ calls.retrieve = calls.chat
           /\ calls.chat > 0 => out.path = "simple" /\ reply \in {ModelReply, GenerationError}
    /\ calls.retrieve_tfidf > 0 => index.valid /\ sklearn

C12_Witness ==
    /\ IndexUnavailable
    /\ calls.chat = 2
    /\ out.docs # <<>>
    /\ reply = ModelReply

\* C13: over any sequence of turns the corpus is loaded at most once and the
\* index is built at most once, both before the first turn is answered.
C13_LoadedAndIndexedOnce ==
    calls.load <= 1 /\ calls.prepare <= 1

\* The corpus the file at the configured path holds now
LiveCorpus == LoadBySuffix(source)

-----------------------------------------------------------------------------
(* Vocabulary of the claims about the prompt *)

\* The positions of a symbol in the prompt
PositionsOf(symbol) == {i \in 1..Len(prompt) : prompt[i] = symbol}

\* The positions at which a document block starts, in ascending order
BlockStarts == Ascending(PositionsOf("[info"))

\* The documents handed to build_prompt_with_rag
Retrieved == RetrievedDocs(out, db.docs)

\* The block of the i-th retrieved document: its number, then its text
Block(i) == <<"[info", ToString(i), "]", NL>> \o Retrieved[i].text \o <<NL>>

\* C16: with a non-empty retrieved list the prompt has the introductory
\* line once, then one block per retrieved document, numbered 1..n in
\* retrieval order and holding the text of the document, then the separator
\* line, and no not-found line; with an empty list it has the not-found
\* line and no block, introductory line or separator; a prompt is returned
\* in both cases.
C16_ContextBlocksOrNotFoundLine ==
    pc = "prompt" =>
        /\ prompt # <<>>
        /\ IF Retrieved # <<>>
           THEN /\ Cardinality(PositionsOf(CtxIntro)) = 1
                /\ Cardinality(PositionsOf(CtxFooter)) = 1
                /\ PositionsOf(NotFoundLine) = {}
                /\ Len(BlockStarts) = Len(Retrieved)
                /\ \A i \in 1..Len(Retrieved) :
                      LET first == BlockStarts[i]
                          last == first + Len(Block(i)) - 1
                      IN /\ last <= Len(prompt)
                         /\ SubSeq(prompt, first, last) = Block(i)
                         /\ \A j \in PositionsOf(CtxIntro) : j < first
                         /\ \A j \in PositionsOf(CtxFooter) : last < j
                         /\ i < Len(Retrieved) => last < BlockStarts[i + 1]
           ELSE /\ Cardinality(PositionsOf(NotFoundLine)) = 1
                /\ PositionsOf("[info") = {}
                /\ PositionsOf(CtxIntro) = {}
                /\ PositionsOf(CtxFooter) = {}

\* A prompt with two blocks for two different documents
C16_Witness ==
    /\ pc = "prompt"
    /\ Len(Retrieved) = 2
    /\ out.docs[1] > out.docs[2]
    /\ Len(BlockStarts) = 2

\* A prompt for an empty retrieved list
C16_WitnessEmpty ==
    /\ pc = "prompt"
    /\ Retrieved = <<>>
    /\ PositionsOf(NotFoundLine) # {}

\* The system instruction and the blank line after it
SystemPart == IF args.system = <<>> THEN <<>> ELSE args.system \o <<NL, NL>>

RoleLabel(role) == CASE role = "user" -> UserLabel [] role = "assistant" -> AssistantLabel

\* One history turn as the prompt shows it, with the line break that
\* separates it from the next part
TurnLines(turn) == <<RoleLabel(turn.role), SP>> \o turn.text \o <<NL, NL>>

\* The new input and the open assistant marker
InputPart == <<UserLabel, SP>> \o query \o <<NL, AssistantLabel>>

\* C17: the prompt is, in this order, the system instruction followed by a
\* blank line (nothing when it is empty), the retrieved-context section,
\* the history turns in input order, each under the label of its role, the
\* new input under the user label, and the assistant marker as the last
\* symbol.
C17_PartsInFixedOrder ==
    pc = "prompt" =>
        /\ Cardinality(PositionsOf(ConversationLine)) = 1
        /\ LET conversation == CHOOSE i \in PositionsOf(ConversationLine) : TRUE
           IN /\ SubSeq(prompt, 1, Len(SystemPart)) = SystemPart
              /\ prompt[Len(SystemPart) + 1] \in {CtxIntro, NotFoundLine}
              /\ \A i \in 1..Len(prompt) :
                    prompt[i] \in ContextSymbols => Len(SystemPart) < i /\ i < conversation
              /\ SubSeq(prompt, conversation, Len(prompt))
                    = <<ConversationLine, NL, NL>>
                      \o Concat([i \in 1..Len(history) |-> TurnLines(history[i])])
                      \o InputPart
        /\ prompt[Len(prompt)] = AssistantLabel

C17_Witness ==
    /\ pc = "prompt"
    /\ args.system # <<>>
    /\ Retrieved # <<>>
    /\ Len(history) = 2
    /\ history[1].role = "assistant"
    /\ history[2].role = "user"

-----------------------------------------------------------------------------
(* Vocabulary of the claim about concurrent calls *)

\* The corpus and the index as they were built, before any call
BuiltCorpus == load_course_db(source)
BuiltIndex == prepare_tfidf_index(BuiltCorpus)

\* The results the retrieval of caller c can return when it runs alone
AloneResults(c) ==
    {retrieve(query[c], BuiltCorpus, k[c])}
    \cup {retrieve_tfidf(query[c], BuiltIndex, k[c], similarities, order) :
             <<similarities, order>> \in
                 UNION {{s} \X ArgSorts(s) : s \in CosineSimilarities(query[c], BuiltIndex)}}

\* C18: no step of a retrieval or of a prompt assembly changes the corpus,
\* the index (with its instructor metadata) or the history, and whatever
\* the interleaving, each caller gets a result of its retrieval run alone
\* and the prompt of its assembly run alone.
C18_CallsDoNotInterfere ==
    /\ db = BuiltCorpus
    /\ index = BuiltIndex
    /\ history = SharedHistory
    /\ \A c \in Callers :
          /\ pc[c] \in {"retrieved", "done"} => out[c] \in AloneResults(c)
          /\ pc[c] = "done" =>
                prompt[c] = build_prompt_with_rag(args.system, SharedHistory, query[c],
                                                  RetrievedDocs(out[c], BuiltCorpus.docs))

\* One caller has its prompt while the other is between the scoring and the
\* ranking of its retrieve_tfidf call
C18_Witness ==
    /\ pc["c1"] = "done"
    /\ out["c1"].path = "filter"
    /\ pc["c2"] = "scored"
    /\ query["c1"] # query["c2"]

\* The number of history turns the prompt shows: its role labels, less the
\* two of the new input and the assistant marker
TurnsInPrompt ==
    Cardinality(PositionsOf(UserLabel) \cup PositionsOf(AssistantLabel)) - 2

\* C19: the prompt built by ChatSession.chat shows at most history_size
\* history turns; with history_size = 0 it shows none.
C19_AtMostHistorySizeTurns ==
    (pc = "ready" /\ calls.chat > 0) => TurnsInPrompt <= args.history_size

\* C20: a call of ChatSession.chat with a passed history leaves the
\* session's own history and the passed list as they were; the session's
\* history changes only in a call without a passed history, by the new
\* input and the reply appended at its end.
C20_ExternalHistoryLeavesSessionHistory ==
    [][/\ calls'.chat > calls.chat =>
             /\ passed' = passed
             /\ passed.given => history' = history
       /\ history' # history =>
             /\ calls'.chat > calls.chat
             /\ ~passed.given
             /\ Len(history') = Len(history) + 2
             /\ SubSeq(history', 1, Len(history)) = history
             /\ history'[Len(history) + 1].role = "user"
             /\ history'[Len(history) + 2] = Turn("assistant", reply')]_vars

\* A call on the session's own history has appended its two turns, and a
\* later call with a passed history (whose assistant turn the last prompt
\* shows) has left them alone
C20_Witness ==
    /\ calls.chat = 2
    /\ Len(history) = 2
    /\ passed.given
    /\ reply = ModelReply
    /\ args.history_size = 2
    /\ Contains(<<AssistantLabel, SP>> \o passed.turns[2].text \o <<NL>>, prompt)

\* The history is a sequence of pairs: a user turn, then the reply to it
PairsOnly(h) ==
    /\ Len(h) % 2 = 0
    /\ \A i \in 1..Len(h) :
          IF i % 2 = 1 THEN h[i].role = "user" /\ h[i].text \in ChatInputs
          ELSE h[i] = Turn("assistant", ModelReply)

\* C21: every call of ChatSession.chat returns the reply or the error
\* text; a call on the session's own history whose generation succeeds
\* appends the pair of its input (the one its prompt ends with) and its
\* reply, every other call leaves the history alone, so the history is a
\* sequence of such pairs in call order.
C21_HistoryOfSuccessfulPairs ==
    [][calls'.chat > calls.chat =>
          /\ reply' \in {ModelReply, GenerationError}
          /\ IF reply' = ModelReply /\ ~passed.given
             THEN \E user_input \in ChatInputs :
                     /\ Contains(FinalPiece(user_input), prompt')
                     /\ history' = history \o <<Turn("user", user_input),
                                                Turn("assistant", reply')>>
             ELSE history' = history
          /\ PairsOnly(history')]_vars

\* A first call has appended its pair; the second, on the session's own
\* history too, has failed and returned the error text
C21_Witness ==
    /\ calls.chat = 2
    /\ ~passed.given
    /\ reply = GenerationError
    /\ Len(history) = 2

-----------------------------------------------------------------------------
(* Vocabulary of the claim about generate *)

\* The positions of the log at which this backend was invoked
InvocationsOf(backend) == {i \in 1..Len(out) : out[i].backend = backend}

\* The failure names an unknown flag, an unrecognised option or --prompt
UnknownFlagStyle(invocation) ==
    /\ invocation.outcome = "failed"
    /\ \E marker \in {"unknown flag", "unrecognized option", "--prompt"} :
          \E i \in 1..Len(invocation.output) : invocation.output[i] = marker

\* C22: langchain is invoked first, and only if it is preferred and
\* available; the ollama CLI is invoked only when langchain is not
\* preferred, not available, or has raised; the stdin form is invoked only
\* right after a --prompt form that failed with an unknown-flag style
\* error; and with langchain preferred and available generate does not
\* leave its first step without having invoked it.
C22_BackendOrder ==
    /\ \A i \in InvocationsOf("langchain") :
          i = 1 /\ args.prefer_langchain /\ args.langchain_available
    /\ ~args.prefer_langchain => InvocationsOf("langchain") = {}
    /\ \A i \in InvocationsOf("cli --prompt") :
          \/ i = 1 /\ ~(args.prefer_langchain /\ args.langchain_available)
          \/ i = 2 /\ out[1] = Invocation("langchain", "raised", <<>>)
    /\ \A i \in InvocationsOf("cli stdin") :
          /\ i > 1
          /\ out[i - 1].backend = "cli --prompt"
          /\ UnknownFlagStyle(out[i - 1])
    /\ (args.prefer_langchain /\ args.langchain_available /\ pc # "generate") =>
          InvocationsOf("langchain") = {1}

\* langchain raised, the --prompt form failed on the flag, the stdin form
\* gave the reply
C22_Witness ==
    /\ pc = "returned"
    /\ Len(out) = 3
    /\ out[1].backend = "langchain"
    /\ out[3] = Invocation("cli stdin", "ok", ModelOutput)
    /\ reply = ModelReply

\* C23: when retrieve_tfidf has matched an instructor name in the query,
\* it returns the documents of the matched instructors, at least one, and
\* does no similarity ranking.
C23_InstructorMatchNeverFallsThrough ==
    (pc = "tfidf" /\ out.matched # {}) =>
        /\ out.path = "filter"
        /\ out.docs # <<>>
        /\ sims = <<>>

\* A match on a name that the CSV file writes with an ideographic space
C23_Witness ==
    /\ pc = "tfidf"
    /\ source.fmt = "csv"
    /\ out.matched = {<<"a", "b">>}
    /\ \E i \in 1..Len(out.docs) : db.docs[out.docs[i]].professor = <<"a", ZSP, "b">>

-----------------------------------------------------------------------------
(* Vocabulary of the claim about the history window *)

\* Does the window of this call hold an assistant turn?
AssistantInWindow(r) ==
    LET window == Trimmed(passed[r].turns, args.history_size)
    IN \E i \in 1..Len(window) : window[i].role = "assistant"

\* C24: two chat calls with the same new input whose histories differ only
\* in the texts of assistant turns retrieve the same documents in the same
\* order (and by the same path), with either retrieval method.
C24_RetrievalIgnoresAssistantTexts ==
    (\A r \in Runs : pc[r] = "done") =>
        /\ out["left"].docs = out["right"].docs
        /\ out["left"].path = out["right"].path
        /\ query["left"] = query["right"]

\* Both calls have retrieved documents by ranking, and their windows hold
\* assistant turns of different texts
C24_Witness ==
    /\ \A r \in Runs : pc[r] = "done" /\ AssistantInWindow(r)
    /\ Trimmed(passed["left"].turns, args.history_size)
          # Trimmed(passed["right"].turns, args.history_size)
    /\ out["left"].path = "rank"
    /\ Len(out["left"].docs) = 2

====
